---- MODULE Spec2Model ----
(***************************************************************************)
(* Thai personal income tax calculator (src/steamlit_app.py).              *)
(*                                                                         *)
(* Two specifications over the same module:                                *)
(*   Spec     the Streamlit page: every widget change reruns the whole     *)
(*            script top to bottom; `ns` is the script's namespace after   *)
(*            the run (the names bound so far, and the exception, if any). *)
(*   SpecTax  calculate_tax applied to a bounded set of incomes, one       *)
(*            bracket-loop iteration per step; `frame` is the function's   *)
(*            local frame.                                                 *)
(*                                                                         *)
(* Units: amounts of money are whole baht.  A rate is an integer percent   *)
(* (the source's 0.05 is 5), so amount * rate is a tax in hundredths of a  *)
(* baht (satang): tax, tax_chunk and tax_payable are in satang.            *)
(***************************************************************************)
EXTENDS Integers, Sequences, FiniteSets, TLC

VARIABLES widgets, ns, reruns, frame

vars == <<widgets, ns, reruns, frame>>

\* ------------------------------------------------------------------ bounds
MaxReruns == 3
MaxChildren == 2
IncomeStep == 50000
MaxIncomeSteps == 130

\* --------------------------------------------------------------- helpers
Min(a, b) == IF a <= b THEN a ELSE b
Max(a, b) == IF a >= b THEN a ELSE b

\* float('inf'): the largest integer TLC represents; subtraction absorbs it.
Inf == 2147483647

\* limit - prev_limit, with inf - x = inf
FloatSub(a, b) == IF a = Inf THEN Inf ELSE a - b

\* ------------------------------------------------- calculate_tax (31-76)
bracketsFirstTaxed ==
    << <<150000, 5>>, <<300000, 5>>, <<500000, 10>>, <<750000, 15>>,
       <<1000000, 20>>, <<2000000, 25>>, <<5000000, 30>>, <<Inf, 35>> >>

\* lines 33-42: brackets, (limit, rate) with the rate in percent
brackets ==
    << <<150000, 0>>, <<300000, 5>>, <<500000, 10>>, <<750000, 15>>,
       <<1000000, 20>>, <<2000000, 25>>, <<5000000, 30>>, <<Inf, 35>> >>

\* line 56: amount_in_bracket = min(remaining_income, current_bracket_cap)
AmountInBracket(remaining_income, current_bracket_cap) ==
    Min(remaining_income, current_bracket_cap)

TaxChunkTruncated(amount_in_bracket, rate) ==
    ((amount_in_bracket * rate) \div 100) * 100

\* line 59: tax_chunk = amount_in_bracket * rate      (satang)
TaxChunk(amount_in_bracket, rate) == amount_in_bracket * rate

AccumulateTaxAssign(tax, tax_chunk) == tax_chunk

\* line 60: tax += tax_chunk
AccumulateTax(tax, tax_chunk) == tax + tax_chunk

AppendBreakdownIfTaxed(breakdown, prev_limit, limit, rate, amount_in_bracket, tax_chunk) ==
    IF tax_chunk > 0
    THEN Append(breakdown, [lower |-> prev_limit + 1, upper |-> limit, Rate |-> rate,
                            AmountTaxed |-> amount_in_bracket, TaxPayable |-> tax_chunk])
    ELSE breakdown

\* lines 62-68: append an entry when amount_in_bracket > 0.  The "Bracket"
\* label f"{prev_limit+1:,.0f} - {limit or 'Max'}" is kept as its two ends
\* (upper = Inf for 'Max'), "Rate" f"{int(rate*100)}%" as the integer percent.
AppendBreakdown(breakdown, prev_limit, limit, rate, amount_in_bracket, tax_chunk) ==
    IF amount_in_bracket > 0
    THEN Append(breakdown, [lower |-> prev_limit + 1, upper |-> limit, Rate |-> rate,
                            AmountTaxed |-> amount_in_bracket, TaxPayable |-> tax_chunk])
    ELSE breakdown

RemainingKept(remaining_income, amount_in_bracket) == remaining_income

\* line 70: remaining_income -= amount_in_bracket
NextRemaining(remaining_income, amount_in_bracket) ==
    remaining_income - amount_in_bracket

\* The frame of a call that is not running.
IdleFrame ==
    [pc |-> "idle", taxable_income |-> 0, tax |-> 0, remaining_income |-> 0,
     prev_limit |-> 0, breakdown |-> <<>>, i |-> 1]

\* lines 44-48: the frame on entry to the loop
Call(taxable_income) ==
    [pc |-> "for", taxable_income |-> taxable_income, tax |-> 0,
     remaining_income |-> taxable_income, prev_limit |-> 0,
     breakdown |-> <<>>, i |-> 1]

\* lines 51-52: if taxable_income <= prev_limit: break
BreakTop(f) == [f EXCEPT !.pc = "return"]

\* lines 55-74: one pass of the loop body on bracket f.i; the loop is left by
\* the break of line 74 or when the brackets are exhausted.
LoopBody(f) ==
    LET limit == brackets[f.i][1]
        rate == brackets[f.i][2]
        current_bracket_cap == FloatSub(limit, f.prev_limit)
        amount_in_bracket == AmountInBracket(f.remaining_income, current_bracket_cap)
        tax_chunk == TaxChunk(amount_in_bracket, rate)
        remaining_income == NextRemaining(f.remaining_income, amount_in_bracket)
    IN  [pc |-> IF remaining_income <= 0 \/ f.i = Len(brackets)
                THEN "return" ELSE "for",
         taxable_income |-> f.taxable_income,
         tax |-> AccumulateTax(f.tax, tax_chunk),
         remaining_income |-> remaining_income,
         prev_limit |-> limit,
         breakdown |-> AppendBreakdown(f.breakdown, f.prev_limit, limit, rate,
                                       amount_in_bracket, tax_chunk),
         i |-> f.i + 1]

\* line 50-52: one turn of `for limit, rate in brackets`
ForStep(f) ==
    IF f.taxable_income <= f.prev_limit THEN BreakTop(f) ELSE LoopBody(f)

RECURSIVE RunLoop(_)
RunLoop(f) == IF f.pc = "for" THEN RunLoop(ForStep(f)) ELSE f

\* line 76: return tax, breakdown
calculate_tax(taxable_income) ==
    LET f == RunLoop(Call(taxable_income))
    IN  [tax |-> f.tax, breakdown |-> f.breakdown]

\* ------------------------------------------------ the script (lines 93-184)
\* Python values, tagged with their type.
Number(v) == [type |-> "number", val |-> v]
Str(v) == [type |-> "str", val |-> v]
Tuple(items) == [type |-> "tuple", val |-> items]
List(items) == [type |-> "list", val |-> items]
TypeError == [type |-> "TypeError", val |-> "unsupported operand type(s) for +"]

\* Python's a + b on the values the script adds: numbers add, tuples
\* concatenate, a number and a tuple raise TypeError; an exception raised in
\* the left operand propagates.
PyAdd(a, b) ==
    IF a.type = "TypeError" THEN a
    ELSE IF a.type = "number" /\ b.type = "number" THEN Number(a.val + b.val)
    ELSE IF a.type = "tuple" /\ b.type = "tuple" THEN Tuple(a.val \o b.val)
    ELSE TypeError

\* The namespace of a run: the names bound so far; "exception" once a
\* statement has raised (Streamlit then stops the script).
Raised(n) == "exception" \in DOMAIN n
Bound(n, name) == name \in DOMAIN n

\* name = value: skipped once the script has raised; raises when the value does.
Bind(n, name, value) ==
    IF Raised(n) THEN n
    ELSE IF value.type = "TypeError" THEN ("exception" :> value) @@ n
    ELSE (name :> value) @@ n

\* The widgets, with the values the model lets the user enter.  Each set lies
\* within the widget's min_value / max_value (lines 99-151).
Statuses == {"Single", "Married (File Jointly)", "Married (File Separate)"}

\* line 130: max_value=4
MaxParents == 4

Choices ==
    [salary_monthly    |-> {0, 5000, 50000, 100000},
     bonus_annual      |-> {0, 100000},
     other_income      |-> {0, 20000},
     foreign_income    |-> {0, 1000000},
     status            |-> Statuses,
     children          |-> 0 .. MaxChildren,
     parents           |-> 0 .. MaxParents,
     sso_annual        |-> {0, 9000},
     life_insurance    |-> {0, 80000, 120000},
     health_insurance  |-> {0, 20000, 30000},
     provident_fund    |-> {0, 250000, 300000},
     rmf               |-> {0, 250000},
     ssf               |-> {0, 300000},
     thai_esg          |-> {0, 100000},
     easy_e_receipt    |-> {0, 50000},
     teawdeemeekeun    |-> {0, 20000},
     mortgage_interest |-> {0, 100000}]

WidgetNames == DOMAIN Choices

\* The value= of each widget (lines 99-151); the selectbox starts on its
\* first option.
Defaults ==
    [salary_monthly    |-> 50000,
     bonus_annual      |-> 0,
     other_income      |-> 0,
     foreign_income    |-> 0,
     status            |-> "Single",
     children          |-> 0,
     parents           |-> 0,
     sso_annual        |-> 9000,
     life_insurance    |-> 0,
     health_insurance  |-> 0,
     provident_fund    |-> 0,
     rmf               |-> 0,
     ssf               |-> 0,
     thai_esg          |-> 0,
     easy_e_receipt    |-> 0,
     teawdeemeekeun    |-> 0,
     mortgage_interest |-> 0]

\* st.number_input(...) returns the widget's number
number_input(w, name) == Number(w[name])

\* lines 94-109: the income tab
TabIncome(w, n0) ==
    LET n1 == Bind(n0, "salary_monthly", number_input(w, "salary_monthly"))
        n2 == Bind(n1, "bonus_annual", number_input(w, "bonus_annual"))
        n3 == Bind(n2, "other_income", number_input(w, "other_income"))
        n4 == Bind(n3, "foreign_income", number_input(w, "foreign_income"))
        \* line 106
        n5 == Bind(n4, "total_income",
                   Number((n4.salary_monthly.val * 12) + n4.bonus_annual.val
                          + n4.other_income.val + n4.foreign_income.val))
        \* line 109: min(total_income * 0.5, 100000); the totals are even
    IN  Bind(n5, "expenses_deduction",
             Number(Min(n5.total_income.val \div 2, 100000)))

HealthDeductibleUncapped(health_insurance) == health_insurance

\* line 155: health_deductible = min(health_insurance, 25000)
HealthDeductible(health_insurance) == Min(health_insurance, 25000)

\* line 156: life_health_total = min(life_insurance + health_deductible, 100000)
LifeHealthTotal(life_insurance, health_deductible) ==
    Min(life_insurance + health_deductible, 100000)

RetirementSumSubCapped(provident_fund, rmf, ssf) ==
    provident_fund + rmf + Min(ssf, 200000)

\* line 161: retirement_sum = provident_fund + rmf + ssf
RetirementSum(provident_fund, rmf, ssf) == provident_fund + rmf + ssf

\* line 162: retirement_deductible = min(retirement_sum, 500000)
RetirementDeductible(retirement_sum) == Min(retirement_sum, 500000)

\* lines 122-131: the family allowances
TabFamily(w, n0) ==
    LET n1 == Bind(n0, "status", Str(w.status))
        n2 == Bind(n1, "spouse_allowance",
                   Number(IF n1.status.val = "Married (File Jointly)" THEN 60000 ELSE 0))
        n3 == Bind(n2, "children", number_input(w, "children"))
        n4 == Bind(n3, "child_allowance", Number(n3.children.val * 30000))
        n5 == Bind(n4, "parents", number_input(w, "parents"))
    IN  Bind(n5, "parent_allowance", Number(n5.parents.val * 30000))

\* lines 137-151: insurance, savings and stimulus widgets.  Line 150 ends in
\* a comma: teawdeemeekeun is bound to the 1-tuple (number,).
TabInputs(w, n0) ==
    LET n1 == Bind(n0, "sso_annual", number_input(w, "sso_annual"))
        n2 == Bind(n1, "life_insurance", number_input(w, "life_insurance"))
        n3 == Bind(n2, "health_insurance", number_input(w, "health_insurance"))
        n4 == Bind(n3, "provident_fund", number_input(w, "provident_fund"))
        n5 == Bind(n4, "rmf", number_input(w, "rmf"))
        n6 == Bind(n5, "ssf", number_input(w, "ssf"))
        n7 == Bind(n6, "thai_esg", number_input(w, "thai_esg"))
        n8 == Bind(n7, "easy_e_receipt", number_input(w, "easy_e_receipt"))
        n9 == Bind(n8, "teawdeemeekeun", Tuple(<<number_input(w, "teawdeemeekeun")>>))
    IN  Bind(n9, "mortgage_interest", number_input(w, "mortgage_interest"))

\* lines 155-162: the insurance and retirement group caps
GroupCaps(n0) ==
    LET n1 == Bind(n0, "health_deductible",
                   Number(HealthDeductible(n0.health_insurance.val)))
        n2 == Bind(n1, "life_health_total",
                   Number(LifeHealthTotal(n1.life_insurance.val, n1.health_deductible.val)))
        n3 == Bind(n2, "retirement_sum",
                   Number(RetirementSum(n2.provident_fund.val, n2.rmf.val, n2.ssf.val)))
    IN  Bind(n3, "retirement_deductible",
             Number(RetirementDeductible(n3.retirement_sum.val)))

\* lines 164-176: the sum, added left to right as Python does
TotalDeductions(n) ==
    PyAdd(PyAdd(PyAdd(PyAdd(PyAdd(PyAdd(PyAdd(PyAdd(PyAdd(PyAdd(
        Number(60000),
        n.spouse_allowance),
        n.child_allowance),
        n.parent_allowance),
        n.sso_annual),
        n.life_health_total),
        n.retirement_deductible),
        n.thai_esg),
        n.easy_e_receipt),
        n.teawdeemeekeun),
        n.mortgage_interest)

\* lines 115-176: the deductions tab
TabDeductions(w, n0) ==
    LET n1 == GroupCaps(TabInputs(w, TabFamily(w, n0)))
    IN  Bind(n1, "total_deductions", TotalDeductions(n1))

\* lines 182-184: net taxable income, the tax and the effective rate
\* (tax_payable in satang over total_income in baht is the rate in percent,
\* here truncated to a whole percent)
Calculations(n0) ==
    LET n1 == Bind(n0, "net_taxable_income",
                   Number(Max(0, n0.total_income.val - n0.expenses_deduction.val
                                 - n0.total_deductions.val)))
        n2 == Bind(n1, "tax_payable",
                   Number(calculate_tax(n1.net_taxable_income.val).tax))
        n3 == Bind(n2, "tax_breakdown",
                   List(calculate_tax(n2.net_taxable_income.val).breakdown))
    IN  Bind(n3, "effective_tax_rate",
             Number(IF n3.total_income.val > 0
                    THEN n3.tax_payable.val \div n3.total_income.val ELSE 0))

\* One run of the script, top to bottom, on the widgets' values.
RunScript(w) == Calculations(TabDeductions(w, TabIncome(w, <<>>)))

\* ------------------------------------------------------- the page (Spec)
Init ==
    /\ widgets = Defaults
    /\ ns = RunScript(Defaults)
    /\ reruns = 0
    /\ frame = IdleFrame

\* The user changes one widget; Streamlit reruns the script.
WidgetChanged ==
    /\ reruns < MaxReruns
    /\ \E name \in WidgetNames : \E v \in Choices[name] :
          /\ v # widgets[name]
          /\ widgets' = [widgets EXCEPT ![name] = v]
    /\ ns' = RunScript(widgets')
    /\ reruns' = reruns + 1
    /\ UNCHANGED frame

Next == WidgetChanged

Spec == Init /\ [][Next]_vars

\* ------------------------------------------- calculate_tax alone (SpecTax)
\* The incomes calculate_tax is applied to: a grid, the ends of the brackets
\* and their neighbours, and the incomes of the documented cases.
Incomes ==
    {k * IncomeStep : k \in 0 .. MaxIncomeSteps}
    \cup {brackets[j][1] + d : j \in 1 .. (Len(brackets) - 1), d \in {-1, 0, 1}}
    \cup {0, 1, 500000, 6000000}

InitTax ==
    /\ widgets = Defaults
    /\ ns = RunScript(Defaults)
    /\ reruns = 0
    /\ \E x \in Incomes : frame = Call(x)

\* lines 50-52: the loop is left at its top
LoopBreakTop ==
    /\ frame.pc = "for"
    /\ frame.taxable_income <= frame.prev_limit
    /\ frame' = BreakTop(frame)
    /\ UNCHANGED <<widgets, ns, reruns>>

\* lines 55-74: one pass of the loop body
LoopIterate ==
    /\ frame.pc = "for"
    /\ ~(frame.taxable_income <= frame.prev_limit)
    /\ frame' = LoopBody(frame)
    /\ UNCHANGED <<widgets, ns, reruns>>

\* line 76
Return ==
    /\ frame.pc = "return"
    /\ frame' = [frame EXCEPT !.pc = "done"]
    /\ UNCHANGED <<widgets, ns, reruns>>

NextTax == LoopBreakTop \/ LoopIterate \/ Return

SpecTax == InitTax /\ [][NextTax]_vars

\* ================================================================ claims
\* The sum of "Amount Taxed" over a breakdown.
RECURSIVE SumAmountTaxed(_)
SumAmountTaxed(b) ==
    IF b = <<>> THEN 0 ELSE b[1].AmountTaxed + SumAmountTaxed(Tail(b))

Returned == frame.pc = "done"

\* C1: for every income x >= 0 passed to calculate_tax, the "Amount Taxed"
\* values of the returned breakdown add up to x exactly.
C1_AmountsSumToIncome ==
    Returned => SumAmountTaxed(frame.breakdown) = frame.taxable_income

C1_Witness ==
    /\ Returned
    /\ frame.taxable_income = 6000000
    /\ Len(frame.breakdown) = 8
    /\ SumAmountTaxed(frame.breakdown) = 6000000

\* C2 as stated: for every income 0 <= x <= 150,000 calculate_tax returns tax
\* 0 and an empty breakdown.
C2_ZeroTaxEmptyBreakdown ==
    (Returned /\ frame.taxable_income <= 150000)
        => (frame.tax = 0 /\ frame.breakdown = <<>>)

\* C2 as amended: for every income 0 <= x <= 150,000 calculate_tax returns tax
\* 0; the breakdown is empty only for x = 0, and for 0 < x <= 150,000 it is
\* the single entry of the 0% bracket, taxing x and owing 0.
C2_ZeroTaxSingleEntry ==
    (Returned /\ frame.taxable_income <= 150000)
        => /\ frame.tax = 0
           /\ frame.taxable_income = 0 => frame.breakdown = <<>>
           /\ frame.taxable_income > 0 =>
                 frame.breakdown =
                     << [lower |-> 1, upper |-> 150000, Rate |-> 0,
                         AmountTaxed |-> frame.taxable_income, TaxPayable |-> 0] >>

C2_Witness ==
    /\ Returned
    /\ frame.taxable_income = 150000
    /\ frame.tax = 0
    /\ Len(frame.breakdown) = 1

\* The reference tax of C5, in satang: the sum over the eight brackets
\* (lower, upper, percent) of percent * max(0, min(x, upper) - lower).
RefBracket(x, lower, upper, percent) == percent * Max(0, Min(x, upper) - lower)

RefTax(x) ==
    RefBracket(x, 0, 150000, 0) + RefBracket(x, 150000, 300000, 5)
    + RefBracket(x, 300000, 500000, 10) + RefBracket(x, 500000, 750000, 15)
    + RefBracket(x, 750000, 1000000, 20) + RefBracket(x, 1000000, 2000000, 25)
    + RefBracket(x, 2000000, 5000000, 30) + 35 * Max(0, x - 5000000)

\* C5: the tax calculate_tax returns equals the reference value; x = 0 gives
\* 0, x = 500,000 gives 27,500 baht and x = 6,000,000 gives 1,615,000 baht.
C5_TaxEqualsReference ==
    Returned =>
        /\ frame.tax = RefTax(frame.taxable_income)
        /\ frame.taxable_income = 0 => frame.tax = 0
        /\ frame.taxable_income = 500000 => frame.tax = 27500 * 100
        /\ frame.taxable_income = 6000000 => frame.tax = 1615000 * 100

C5_Witness ==
    /\ Returned
    /\ frame.taxable_income = 500000
    /\ frame.tax = 27500 * 100

\* C6: the tax is monotonically non-decreasing in income: the tax returned
\* for x is at least the tax of every smaller income.
C6_TaxMonotone ==
    Returned =>
        \A y \in Incomes :
            y < frame.taxable_income => calculate_tax(y).tax <= frame.tax

C6_Witness ==
    /\ Returned
    /\ frame.taxable_income = 300001
    /\ calculate_tax(300000).tax < frame.tax
    /\ calculate_tax(150000).tax < calculate_tax(300000).tax

\* C10: at every point of the bracket loop remaining_income plus the amounts
\* taxed so far is taxable_income, with remaining_income >= 0; every entry of
\* the breakdown taxes an amount > 0; the entries are in ascending bracket
\* order; every entry but the last taxes the full width of its bracket; and
\* the loop goes on only while income remains and brackets are left.
C10_LoopInvariant ==
    LET b == frame.breakdown
    IN  /\ frame.remaining_income + SumAmountTaxed(b) = frame.taxable_income
        /\ frame.remaining_income >= 0
        /\ \A k \in 1 .. Len(b) : b[k].AmountTaxed > 0
        /\ \A k \in 1 .. (Len(b) - 1) :
              /\ b[k].upper < b[k + 1].upper
              /\ b[k + 1].lower = b[k].upper + 1
              /\ b[k].AmountTaxed = b[k].upper - (b[k].lower - 1)
        /\ (frame.pc = "for" /\ frame.i > 1) =>
              (frame.remaining_income > 0 /\ frame.i <= 8)
        /\ frame.pc \in {"return", "done"} =>
              (frame.remaining_income <= 0 \/ frame.i > 8)

C10_Witness ==
    /\ frame.pc = "for"
    /\ frame.i = 3
    /\ Len(frame.breakdown) = 2
    /\ frame.remaining_income > 0

\* C3: total_deductions is the numeric sum of the eleven components.
C3_TotalDeductionsIsSum ==
    /\ Bound(ns, "total_deductions")
    /\ ns.total_deductions.type = "number"
    /\ ns.total_deductions.val =
          60000 + ns.spouse_allowance.val + ns.child_allowance.val
          + ns.parent_allowance.val + widgets.sso_annual
          + ns.life_health_total.val + ns.retirement_deductible.val
          + widgets.thai_esg + widgets.easy_e_receipt
          + widgets.teawdeemeekeun + widgets.mortgage_interest

\* C4: the computation is total: every run on valid inputs ends with a tax
\* payable and a breakdown, never with an error.
C4_RunIsTotal ==
    /\ ~Raised(ns)
    /\ Bound(ns, "tax_payable")
    /\ Bound(ns, "tax_breakdown")

\* C7: net_taxable_income is max(0, total_income - expenses_deduction -
\* total_deductions), with expenses_deduction = min(total_income * 0.5,
\* 100,000) and total_income = salary_monthly * 12 + bonus + other + foreign;
\* it is never negative.
C7_NetTaxableIncome ==
    /\ ns.total_income.val =
          widgets.salary_monthly * 12 + widgets.bonus_annual
          + widgets.other_income + widgets.foreign_income
    /\ 2 * ns.expenses_deduction.val = Min(ns.total_income.val, 2 * 100000)
    /\ Bound(ns, "net_taxable_income")
    /\ Bound(ns, "total_deductions")
    /\ ns.net_taxable_income.val =
          Max(0, ns.total_income.val - ns.expenses_deduction.val
                 - ns.total_deductions.val)
    /\ ns.net_taxable_income.val >= 0

\* C8: life_health_total is min(life + min(health, 25,000), 100,000): never
\* above 100,000, and health insurance adds at most 25,000 to it.
C8_InsuranceGroupCap ==
    /\ Bound(ns, "life_health_total")
    /\ ns.life_health_total.val =
          Min(widgets.life_insurance + Min(widgets.health_insurance, 25000), 100000)
    /\ ns.life_health_total.val <= 100000
    /\ ns.life_health_total.val <= widgets.life_insurance + 25000

C8_Witness ==
    /\ widgets.life_insurance = 80000
    /\ widgets.health_insurance = 30000
    /\ ns.health_deductible.val = 25000
    /\ ns.life_health_total.val = 100000

\* C9: retirement_deductible is min(provident_fund + rmf + ssf, 500,000):
\* never above 500,000, with no cap on a single fund before the sum.
C9_RetirementGroupCap ==
    /\ Bound(ns, "retirement_deductible")
    /\ ns.retirement_deductible.val =
          Min(widgets.provident_fund + widgets.rmf + widgets.ssf, 500000)
    /\ ns.retirement_deductible.val <= 500000

C9_Witness ==
    /\ widgets.provident_fund = 300000
    /\ widgets.ssf = 300000
    /\ ns.retirement_sum.val = 600000
    /\ ns.retirement_deductible.val = 500000

====
